---------------------------- MODULE Spec2Model ----------------------------
(***************************************************************************)
(* A model of package csvutil (src/csvutil.go): the tag-driven mapping     *)
(* between CSV grids and Go structs.                                       *)
(*                                                                         *)
(* Text (Go string) is a sequence of one-character strings, so that        *)
(* parsing and formatting are computed character by character.  A Go       *)
(* integer is kept at full precision as a sign and a canonical decimal     *)
(* magnitude (a sequence of digits 0..9 without leading zeros, <<0>> for   *)
(* zero), since the values of a 64-bit field do not fit the integers of    *)
(* TLC.  A float is kept as the exact decimal expansion of its binary      *)
(* value, so that strconv.ParseFloat rounds to the nearest float32 or      *)
(* float64 and strconv.FormatFloat rounds that value to an integer.        *)
(*                                                                         *)
(* A file is kept as its bytes: csv.Writer.WriteAll is computed down to    *)
(* the characters it puts out (commas, newlines, quoted cells) and         *)
(* csv.Reader.ReadAll parses those characters back into records, so that   *)
(* what a write that failed half way left behind is read as the file it    *)
(* is.                                                                     *)
(***************************************************************************)
EXTENDS Integers, Sequences, FiniteSets, TLC

VARIABLES file, written, ret, conv, dev

vars == <<file, written, ret, conv, dev>>

-----------------------------------------------------------------------------
(* Text and decimal magnitudes                                             *)

DigitChars == <<"0", "1", "2", "3", "4", "5", "6", "7", "8", "9">>

IsDigit(c) == \E i \in 1..10 : DigitChars[i] = c

DigitVal(c) == (CHOOSE i \in 1..10 : DigitChars[i] = c) - 1

\* a digit sequence without its leading zeros (one digit at least is kept)
StripZeros(d) ==
    LET nz == {i \in 1..Len(d) : d[i] # 0}
    IN  IF d = <<>> THEN <<>>
        ELSE IF nz = {} THEN <<0>>
        ELSE SubSeq(d, CHOOSE i \in nz : \A j \in nz : i <= j, Len(d))

\* a < b on canonical magnitudes
MagLess(a, b) ==
    \/ Len(a) < Len(b)
    \/ /\ Len(a) = Len(b)
       /\ \E i \in 1..Len(a) :
            /\ a[i] < b[i]
            /\ \A j \in 1..(i - 1) : a[j] = b[j]

\* long division of a magnitude by 2^16: the quotient's digits and the
\* remainder
RECURSIVE DivFrom(_, _, _)
DivFrom(d, i, rem) ==
    IF i > Len(d)
    THEN [q |-> <<>>, r |-> rem]
    ELSE LET s    == 10 * rem + d[i]
             rest == DivFrom(d, i + 1, s % 65536)
         IN  [q |-> <<s \div 65536>> \o rest.q, r |-> rest.r]

DivMod16(d) ==
    LET x == DivFrom(d, 1, 0) IN [q |-> StripZeros(x.q), r |-> x.r]

\* the decimal digits of a natural number
RECURSIVE MagOfNat(_)
MagOfNat(n) == IF n < 10 THEN <<n>> ELSE Append(MagOfNat(n \div 10), n % 10)

Big(neg, mag) == [neg |-> neg /\ mag # <<0>>, mag |-> mag]

\* v in [-2^31, 2^31 - 1] as a signed magnitude (-2^31 has no negation)
BigOfInt(v) ==
    IF v >= 0
    THEN Big(FALSE, MagOfNat(v))
    ELSE LET last == (10 - (v % 10)) % 10
             rest == -((v + last) \div 10)
         IN  Big(TRUE, StripZeros(Append(MagOfNat(rest), last)))

\* Go's conversion intW(x) of an int64 x, W = 8, 16, 32 or 64: keep the low
\* w bits of the two's-complement form of x and read them as a signed number.
\* The low 32 bits are computed as two 16-bit halves.
Truncate(x, w) ==
    IF w = 64
    THEN x
    ELSE
      LET d1  == DivMod16(x.mag)
          lo  == d1.r
          hi  == DivMod16(d1.q).r
          ulo == IF x.neg THEN (65536 - lo) % 65536 ELSE lo
          uhi == IF ~x.neg THEN hi
                 ELSE IF lo = 0 THEN (65536 - hi) % 65536
                 ELSE 65535 - hi
      IN  IF w = 32
          THEN BigOfInt((IF uhi >= 32768 THEN uhi - 65536 ELSE uhi) * 65536 + ulo)
          ELSE LET u == ulo % (2 ^ w)
               IN  BigOfInt(IF u >= 2 ^ (w - 1) THEN u - 2 ^ w ELSE u)

\* 2^(bitSize - 1) as a magnitude
Cutoff(size) ==
    CASE size = 8  -> <<1, 2, 8>>
      [] size = 16 -> <<3, 2, 7, 6, 8>>
      [] size = 32 -> <<2, 1, 4, 7, 4, 8, 3, 6, 4, 8>>
      [] size = 64 -> <<9, 2, 2, 3, 3, 7, 2, 0, 3, 6, 8, 5, 4, 7, 7, 5, 8, 0, 8>>

\* v, once x has its value.  TLC evaluates an operator's arguments on
\* demand; a carry handed from digit to digit would otherwise be one long
\* chain of pending evaluations.
After(x, v) == IF x = x THEN v ELSE v

\* d * k + c on a magnitude, digit by digit from the right over d[lo..hi]:
\* the digits and the carry out (k <= 2^27 keeps every step in 32 bits)
RECURSIVE MulRange(_, _, _, _, _)
MulRange(d, lo, hi, k, c) ==
    IF lo = hi
    THEN LET t == d[lo] * k + c
         IN  [d |-> <<t % 10>>, c |-> t \div 10]
    ELSE LET mid == (lo + hi) \div 2
             r   == MulRange(d, mid + 1, hi, k, c)
             l   == MulRange(d, lo, mid, k, r.c)
         IN  After(r, [d |-> l.d \o r.d, c |-> l.c])

MulAdd(d, k, c) ==
    LET x == MulRange(d, 1, Len(d), k, c)
    IN  StripZeros((IF x.c = 0 THEN <<>> ELSE MagOfNat(x.c)) \o x.d)

MulSmall(d, k) == MulAdd(d, k, 0)

\* d * 2^n
RECURSIVE MulPow2(_, _)
MulPow2(d, n) ==
    IF n <= 27 THEN MulSmall(d, 2 ^ n)
    ELSE LET x == MulPow2(d, n \div 2)
         IN  After(x, MulPow2(x, n - n \div 2))

\* d * 5^n
RECURSIVE MulPow5(_, _)
MulPow5(d, n) ==
    IF n <= 11 THEN MulSmall(d, 5 ^ n)
    ELSE LET x == MulPow5(d, n \div 2)
         IN  After(x, MulPow5(x, n - n \div 2))

Zeros(n) == [i \in 1..n |-> 0]

\* a digit sequence without its trailing zeros
TrimRight(d) ==
    LET nz == {i \in 1..Len(d) : d[i] # 0}
    IN  IF nz = {} THEN <<>>
        ELSE SubSeq(d, 1, CHOOSE i \in nz : \A j \in nz : j <= i)

-----------------------------------------------------------------------------
(* package strconv, as the source calls it                                 *)

TrueTokens ==
    { <<"1">>, <<"t">>, <<"T">>, <<"T", "R", "U", "E">>,
      <<"t", "r", "u", "e">>, <<"T", "r", "u", "e">> }

FalseTokens ==
    { <<"0">>, <<"f">>, <<"F">>, <<"F", "A", "L", "S", "E">>,
      <<"f", "a", "l", "s", "e">>, <<"F", "a", "l", "s", "e">> }

ParseBool(s) ==
    IF s \in TrueTokens THEN [ok |-> TRUE, val |-> TRUE]
    ELSE IF s \in FalseTokens THEN [ok |-> TRUE, val |-> FALSE]
    ELSE [ok |-> FALSE, val |-> FALSE]

FormatBool(b) ==
    IF b THEN <<"t", "r", "u", "e">> ELSE <<"f", "a", "l", "s", "e">>

\* strconv.ParseInt(s, 10, size): an optional sign, then one or more
\* decimal digits; a value outside [-2^(size-1), 2^(size-1) - 1] is a
\* range error.
ParseInt(s, size) ==
    LET signed == Len(s) > 0 /\ s[1] \in {"+", "-"}
        neg    == Len(s) > 0 /\ s[1] = "-"
        body   == IF signed THEN Tail(s) ELSE s
        syntax == Len(body) > 0 /\ \A i \in 1..Len(body) : IsDigit(body[i])
        mag    == StripZeros([i \in 1..Len(body) |-> DigitVal(body[i])])
        cutoff == Cutoff(size)
    IN  IF ~syntax
        THEN [ok |-> FALSE, val |-> Big(FALSE, <<0>>)]
        ELSE IF (~neg /\ ~MagLess(mag, cutoff)) \/ (neg /\ MagLess(cutoff, mag))
        THEN [ok |-> FALSE, val |-> Big(FALSE, <<0>>)]
        ELSE [ok |-> TRUE, val |-> Big(neg, mag)]

\* strconv.FormatInt(x, 10)
FormatInt(x) ==
    (IF x.neg THEN <<"-">> ELSE <<>>)
        \o [i \in 1..Len(x.mag) |-> DigitChars[x.mag[i] + 1]]

-----------------------------------------------------------------------------
(* Floating point.  A float32 or float64 is kept as the exact decimal      *)
(* expansion of the binary value: a sign, the digits before the point      *)
(* (canonical) and the digits after it (no trailing zeros); or an          *)
(* infinity, or NaN.                                                       *)

Flt(neg, int, frac) == [cls |-> "fin", neg |-> neg, int |-> int, frac |-> frac]

Inf(neg) == [cls |-> "inf", neg |-> neg, int |-> <<0>>, frac |-> <<>>]

NaN == [cls |-> "nan", neg |-> FALSE, int |-> <<0>>, frac |-> <<>>]

FloatKinds == {"Float32", "Float64"}

\* mantissa bits (with the hidden one), the exponent of the smallest
\* subnormal, the power of two no value reaches, and 2^p in digits
FloatInfo(size) ==
    IF size = 32
    THEN [p |-> 24, emin |-> -149, top |-> 128, lim |-> <<1, 6, 7, 7, 7, 2, 1, 6>>]
    ELSE [p |-> 53, emin |-> -1074, top |-> 1024,
          lim |-> <<9, 0, 0, 7, 1, 9, 9, 2, 5, 4, 7, 4, 0, 9, 9, 2>>]

\* a number written as the digits x with the last f of them after the point
IntPart(x, f) == IF Len(x) <= f THEN <<0>> ELSE SubSeq(x, 1, Len(x) - f)

FracPart(x, f) ==
    IF Len(x) <= f THEN TrimRight(Zeros(f - Len(x)) \o x)
    ELSE TrimRight(SubSeq(x, Len(x) - f + 1, Len(x)))

Point(neg, x, f) == Flt(neg, IntPart(x, f), FracPart(x, f))

\* m * 2^e as a decimal expansion
DecimalOf(neg, m, e) ==
    IF e >= 0 THEN Flt(neg, MulPow2(m, e), <<>>) ELSE Point(neg, MulPow5(m, -e), -e)

\* the number n * 10^kd as it is written
Written(neg, n, kd) ==
    IF kd >= 0 THEN Flt(neg, n \o Zeros(kd), <<>>) ELSE Point(neg, n, -kd)

\* an integer q followed by the fraction r rounds away from q: r is more
\* than a half, or a half and q is odd
RoundsUp(q, r) ==
    /\ r # <<>>
    /\ \/ r[1] > 5
       \/ r[1] = 5 /\ (Len(r) > 1 \/ q[Len(q)] % 2 = 1)

\* the binary exponent to start from: a lower bound of floor(log2) of
\* n * 10^kd * 2^kb, from n >= 10^(Len(n) - 1), less the mantissa's bits
StartExp(d10, kb, fi) ==
    LET lg == (IF d10 >= 0 THEN (d10 * 3321) \div 1000 ELSE (d10 * 3322) \div 1000) + kb
    IN  IF lg - (fi.p - 1) < fi.emin THEN fi.emin ELSE lg - (fi.p - 1)

\* n * 10^kd * 2^t in digits, the last f of them after the point (a
\* division by two is a multiplication by five and one digit more after it)
Scaled(n, kd, t) ==
    LET t10 == IF t >= 0 THEN kd ELSE kd + t
    IN  [x |-> (IF t >= 0 THEN MulPow2(n, t) ELSE MulPow5(n, -t))
                  \o (IF t10 > 0 THEN Zeros(t10) ELSE <<>>),
         f |-> IF t10 < 0 THEN -t10 ELSE 0]

\* halve the number (x, f), as 5 x with one more digit after the point,
\* until its integer part is below lim
RECURSIVE Settle(_, _, _, _)
Settle(x, f, e, lim) ==
    IF MagLess(IntPart(x, f), lim) THEN [x |-> x, f |-> f, e |-> e]
    ELSE LET x5 == MulSmall(x, 5)
         IN  After(x5, Settle(x5, f + 1, e + 1, lim))

\* the float with mantissa m and exponent e, or a range error when it is
\* 2^top or more; when nothing was rounded off a decimal, the float is the
\* number as written
FloatOf(neg, n, kd, kb, fi, e, exact, m) ==
    IF e + fi.p > fi.top \/ (e + fi.p = fi.top /\ m = fi.lim)
    THEN [ok |-> FALSE, val |-> Inf(neg)]
    ELSE IF exact /\ kb = 0
    THEN [ok |-> TRUE, val |-> Written(neg, n, kd)]
    ELSE [ok |-> TRUE, val |-> DecimalOf(neg, m, e)]

\* the mantissa is the integer part q of the settled number, or the next
\* integer when the fraction r rounds up
RoundEven(neg, n, kd, kb, fi, e, q, r) ==
    FloatOf(neg, n, kd, kb, fi, e, r = <<>>, IF RoundsUp(q, r) THEN MulAdd(q, 1, 1) ELSE q)

Settled(neg, n, kd, kb, fi, s) ==
    After(s, RoundEven(neg, n, kd, kb, fi, s.e, IntPart(s.x, s.f), FracPart(s.x, s.f)))

From(neg, n, kd, kb, fi, e0, x) ==
    After(x, Settled(neg, n, kd, kb, fi, Settle(x.x, x.f, e0, fi.lim)))

StartAt(neg, n, kd, kb, fi, e0) ==
    From(neg, n, kd, kb, fi, e0, Scaled(n, kd, kb - e0))

\* the float of the given size nearest to n * 10^kd * 2^kb (n > 0), ties to
\* the even mantissa, subnormals included.  The mantissa is the integer
\* part of the number over 2^e, for the e that brings it below 2^p.
Nearest(neg, n, kd, kb, size) ==
    StartAt(neg, n, kd, kb, FloatInfo(size),
            StartExp(Len(n) - 1 + kd, kb, FloatInfo(size)))

UpperChars ==
    << "A", "B", "C", "D", "E", "F", "G", "H", "I", "J", "K", "L", "M",
       "N", "O", "P", "Q", "R", "S", "T", "U", "V", "W", "X", "Y", "Z" >>

LowerChars ==
    << "a", "b", "c", "d", "e", "f", "g", "h", "i", "j", "k", "l", "m",
       "n", "o", "p", "q", "r", "s", "t", "u", "v", "w", "x", "y", "z" >>

lower(c) ==
    IF \E i \in 1..26 : UpperChars[i] = c
    THEN LowerChars[CHOOSE i \in 1..26 : UpperChars[i] = c]
    ELSE c

IsHexLetter(c) == lower(c) \in {"a", "b", "c", "d", "e", "f"}

HexVal(c) ==
    IF IsDigit(c) THEN DigitVal(c)
    ELSE 9 + (CHOOSE i \in 1..6 : LowerChars[i] = lower(c))

\* strconv's special: "inf" and "infinity" with an optional sign, "nan"
\* without one, in any case of letters
special(s) ==
    LET signed == Len(s) > 0 /\ s[1] \in {"+", "-"}
        body   == IF signed THEN Tail(s) ELSE s
        low    == [i \in 1..Len(body) |-> lower(body[i])]
    IN  IF low \in {<<"i", "n", "f">>, <<"i", "n", "f", "i", "n", "i", "t", "y">>}
        THEN [ok |-> TRUE, val |-> Inf(signed /\ s[1] = "-")]
        ELSE IF ~signed /\ low = <<"n", "a", "n">>
        THEN [ok |-> TRUE, val |-> NaN]
        ELSE [ok |-> FALSE, val |-> NaN]

\* strconv's underscoreOK: an underscore stands only between two digits,
\* a base prefix counting as a digit
RECURSIVE UnderscoreScan(_, _, _, _)
UnderscoreScan(s, i, hex, saw) ==
    IF i > Len(s) THEN saw # "_"
    ELSE IF IsDigit(s[i]) \/ (hex /\ IsHexLetter(s[i]))
    THEN UnderscoreScan(s, i + 1, hex, "0")
    ELSE IF s[i] = "_"
    THEN saw = "0" /\ UnderscoreScan(s, i + 1, hex, "_")
    ELSE saw # "_" /\ UnderscoreScan(s, i + 1, hex, "!")

underscoreOK(s) ==
    LET t   == IF Len(s) >= 1 /\ s[1] \in {"+", "-"} THEN Tail(s) ELSE s
        pre == Len(t) >= 2 /\ t[1] = "0" /\ lower(t[2]) \in {"b", "o", "x"}
    IN  UnderscoreScan(t, IF pre THEN 3 ELSE 1, pre /\ lower(t[2]) = "x",
                       IF pre THEN "0" ELSE "^")

\* the mantissa loop of strconv's readFloat from s[i]: it runs over digits
\* (hexadecimal ones in base 16), underscores and the first point
MantEnd(s, i, base) ==
    LET stop(j) ==
            \/ j > Len(s)
            \/ /\ s[j] # "_"
               /\ s[j] # "."
               /\ ~IsDigit(s[j])
               /\ ~(base = 16 /\ IsHexLetter(s[j]))
            \/ s[j] = "." /\ \E h \in i..(j - 1) : s[h] = "."
    IN  CHOOSE j \in i..(Len(s) + 1) : stop(j) /\ \A h \in i..(j - 1) : ~stop(h)

IsMantDigit(c) == c # "_" /\ c # "."

\* the exponent's digits from s[i], as the loop adds them up
RECURSIVE ScanExp(_, _, _)
ScanExp(s, i, e) ==
    IF i <= Len(s) /\ s[i] = "_" THEN ScanExp(s, i + 1, e)
    ELSE IF i <= Len(s) /\ IsDigit(s[i])
    THEN IF e < 10000 THEN ScanExp(s, i + 1, e * 10 + DigitVal(s[i]))
         ELSE ScanExp(s, i + 1, e)
    ELSE [e |-> e, i |-> i]

\* strconv's readFloat: sign, mantissa digits (all of them kept), the
\* number of digits after the point, the exponent, and where it stopped
readFloat(s) ==
    LET bad    == [ok |-> FALSE, neg |-> FALSE, hex |-> FALSE, digits |-> <<>>,
                   nfrac |-> 0, exp |-> 0, i |-> 1]
        signed == Len(s) > 0 /\ s[1] \in {"+", "-"}
        neg    == Len(s) > 0 /\ s[1] = "-"
        i0     == IF signed THEN 2 ELSE 1
        hex    == i0 + 2 <= Len(s) /\ s[i0] = "0" /\ lower(s[i0 + 1]) = "x"
        m0     == IF hex THEN i0 + 2 ELSE i0
        m1     == MantEnd(s, m0, IF hex THEN 16 ELSE 10)
        mant   == SubSeq(s, m0, m1 - 1)
        chars  == SelectSeq(mant, IsMantDigit)
        digits == [j \in 1..Len(chars) |-> HexVal(chars[j])]
        nfrac  == Cardinality({j \in 1..Len(mant) :
                      IsMantDigit(mant[j]) /\ \E h \in 1..(j - 1) : mant[h] = "."})
        hasExp == m1 <= Len(s) /\ lower(s[m1]) = (IF hex THEN "p" ELSE "e")
        esign  == m1 + 1 <= Len(s) /\ s[m1 + 1] \in {"+", "-"}
        i1     == IF esign THEN m1 + 2 ELSE m1 + 1
        x      == ScanExp(s, i1, 0)
        end    == IF hasExp THEN x.i ELSE m1
        unders == \E j \in 1..(end - 1) : s[j] = "_"
    IN  IF Len(s) = 0 \/ digits = <<>> THEN bad
        ELSE IF hasExp /\ (i1 > Len(s) \/ ~IsDigit(s[i1])) THEN bad
        ELSE IF ~hasExp /\ hex THEN bad
        ELSE IF unders /\ ~underscoreOK(SubSeq(s, 1, end - 1)) THEN bad
        ELSE [ok |-> TRUE, neg |-> neg, hex |-> hex, digits |-> digits,
              nfrac |-> nfrac,
              exp |-> IF ~hasExp THEN 0
                      ELSE IF s[m1 + 1] = "-" THEN -x.e ELSE x.e,
              i |-> end]

\* the value of hexadecimal digits as a magnitude
RECURSIVE HexMag(_, _, _, _)
HexMag(digits, lo, hi, acc) ==
    IF lo = hi THEN MulAdd(acc, 16, digits[lo])
    ELSE LET mid == (lo + hi) \div 2
             x   == HexMag(digits, lo, mid, acc)
         IN  After(x, HexMag(digits, mid + 1, hi, x))

\* a number of hexadecimal digits n * 2^k, nd digits written
atofHex(neg, n, k, nd, size) ==
    IF n = <<0>> \/ 4 * (nd + 1) + k < -1080
    THEN [ok |-> TRUE, val |-> Flt(neg, <<0>>, <<>>)]
    ELSE IF k > 1030
    THEN [ok |-> FALSE, val |-> Inf(neg)]
    ELSE Nearest(neg, n, 0, k, size)

\* a decimal number n * 10^k
atofDec(neg, n, k, size) ==
    IF n = <<0>> \/ Len(n) + k < -330
    THEN [ok |-> TRUE, val |-> Flt(neg, <<0>>, <<>>)]
    ELSE IF Len(n) + k > 310
    THEN [ok |-> FALSE, val |-> Inf(neg)]
    ELSE Nearest(neg, n, k, 0, size)

\* what readFloat read of a text of len characters: all of it, or the text
\* is no number
atof(r, len, size) ==
    IF ~r.ok \/ r.i # len + 1
    THEN [ok |-> FALSE, val |-> Flt(FALSE, <<0>>, <<>>)]
    ELSE IF r.hex
    THEN atofHex(r.neg, HexMag(r.digits, 1, Len(r.digits), <<0>>),
                 r.exp - 4 * r.nfrac, Len(r.digits), size)
    ELSE atofDec(r.neg, StripZeros(r.digits), r.exp - r.nfrac, size)

\* strconv.ParseFloat(s, size): the float nearest to the number s writes,
\* a syntax error when s is not a number, a range error when it is too
\* large for the size
ParseFloat(s, size) ==
    IF special(s).ok THEN special(s) ELSE atof(readFloat(s), Len(s), size)

\* strconv.FormatFloat(x, 'f', 0, size): no digit after the point, the
\* value rounded to the nearest integer, a tie to the even one
FormatFloat(x) ==
    CASE x.cls = "nan" -> <<"N", "a", "N">>
      [] x.cls = "inf" -> <<IF x.neg THEN "-" ELSE "+", "I", "n", "f">>
      [] OTHER ->
           LET n == IF RoundsUp(x.int, x.frac) THEN MulAdd(x.int, 1, 1) ELSE x.int
           IN  (IF x.neg THEN <<"-">> ELSE <<>>)
                   \o [i \in 1..Len(n) |-> DigitChars[n[i] + 1]]

-----------------------------------------------------------------------------
(* Record types (reflect.Type): a kind and, for a struct, its fields in    *)
(* declaration order.  A field has a name, a kind, the value of its `col`  *)
(* tag (<<>> when it has none: Tag.Get returns "") and whether its name is *)
(* exported (reflect refuses to set a field that is not).                  *)

Fld(name, kind, col, exported) ==
    [name |-> name, kind |-> kind, col |-> col, exported |-> exported]

NoTag == <<>>

IntKinds == {"Int8", "Int16", "Int32", "Int64", "Int"}

\* bits of a numeric kind; int is 64 bits wide on the platforms modelled
Width(kind) ==
    CASE kind = "Int8"  -> 8
      [] kind = "Int16" -> 16
      [] kind = "Int32" -> 32
      [] kind = "Int64" -> 64
      [] kind = "Int"   -> 64
      [] kind = "Float32" -> 32
      [] kind = "Float64" -> 64

TypeNames ==
    {"Pair", "Ints", "Nums", "Reals", "Mid", "Head", "Tail", "Bad", "Hid",
     "Mix", "NotStruct"}

Types ==
    [t \in TypeNames |->
        CASE t = "Pair" ->
               [kind |-> "Struct",
                fields |-> << Fld("A", "String", <<"a">>, TRUE),
                              Fld("B", "Bool", <<"b">>, TRUE) >>]
          [] t = "Ints" ->
               [kind |-> "Struct",
                fields |-> << Fld("A", "Int8", <<"a">>, TRUE),
                              Fld("B", "Int64", <<"b">>, TRUE) >>]
          [] t = "Nums" ->
               [kind |-> "Struct",
                fields |-> << Fld("A", "Int16", <<"a">>, TRUE),
                              Fld("B", "Int", <<"b">>, TRUE) >>]
          [] t = "Reals" ->
               [kind |-> "Struct",
                fields |-> << Fld("A", "Float64", <<"a">>, TRUE),
                              Fld("B", "Float32", <<"b">>, TRUE) >>]
          [] t = "Mid" ->
               [kind |-> "Struct",
                fields |-> << Fld("A", "Int32", <<"a">>, TRUE),
                              Fld("Skip", "String", NoTag, TRUE),
                              Fld("B", "String", <<"b">>, TRUE) >>]
          [] t = "Head" ->
               [kind |-> "Struct",
                fields |-> << Fld("Skip", "Bool", NoTag, TRUE),
                              Fld("A", "String", <<"a">>, TRUE) >>]
          [] t = "Tail" ->
               [kind |-> "Struct",
                fields |-> << Fld("A", "String", <<"a">>, TRUE),
                              Fld("Skip", "Slice", NoTag, TRUE) >>]
          [] t = "Bad" ->
               [kind |-> "Struct",
                fields |-> << Fld("A", "String", <<"a">>, TRUE),
                              Fld("L", "Slice", <<"b">>, TRUE) >>]
          [] t = "Hid" ->
               [kind |-> "Struct",
                fields |-> << Fld("A", "String", <<"a">>, TRUE),
                              Fld("b", "Bool", <<"b">>, FALSE) >>]
          [] t = "Mix" ->
               [kind |-> "Struct",
                fields |-> << Fld("A", "Int", <<"a">>, TRUE),
                              Fld("b", "Bool", <<"b">>, FALSE) >>]
          [] t = "NotStruct" ->
               [kind |-> "Int", fields |-> <<>>] ]

FieldNames(T) == {T.fields[i].name : i \in 1..Len(T.fields)}

Annotated(T) == {i \in 1..Len(T.fields) : T.fields[i].col # NoTag}

\* reflect.Value.FieldByName
FieldByName(T, k) == T.fields[CHOOSE i \in 1..Len(T.fields) : T.fields[i].name = k]

\* the zero value new(T) starts every field with
ZeroValue(kind) ==
    CASE kind = "Bool" -> FALSE
      [] kind \in IntKinds -> Big(FALSE, <<0>>)
      [] kind \in FloatKinds -> Flt(FALSE, <<0>>, <<>>)
      [] kind = "String" -> <<>>
      [] OTHER -> "nil"

ZeroRec(T) == [k \in FieldNames(T) |-> ZeroValue(FieldByName(T, k).kind)]

-----------------------------------------------------------------------------
(* Outcomes.  A call returns, returns an error value, or faults (a Go      *)
(* runtime panic).                                                         *)

NoErr == [kind |-> "", field |-> ""]

Err(kind, field) == [kind |-> kind, field |-> field]

-----------------------------------------------------------------------------
(* getStructTags: the header binder                                        *)

\* colNum: scanned left to right, a later occurrence overwrites (zero-based)
ColNum(colHeader) ==
    [c \in {colHeader[i] : i \in 1..Len(colHeader)} |->
        (CHOOSE i \in 1..Len(colHeader) :
            /\ colHeader[i] = c
            /\ \A j \in (i + 1)..Len(colHeader) : colHeader[j] # c) - 1]

NilMap == [k \in {} |-> 0]

\* getStructTags as it would be if a field took the column at its own place
\* among the annotated fields instead of the place its name has in the header
getStructTagsByPosition(T, colHeader) ==
    LET present == {colHeader[i] : i \in 1..Len(colHeader)}
        missing == {i \in Annotated(T) : T.fields[i].col \notin present}
    IN  IF T.kind # "Struct"
        THEN [status |-> "err", err |-> Err("NotStruct", ""), nil |-> TRUE, m |-> NilMap]
        ELSE IF missing # {}
        THEN [status |-> "err",
              err |-> Err("ColumnNotFound",
                          T.fields[CHOOSE i \in missing : \A j \in missing : i <= j].name),
              nil |-> TRUE, m |-> NilMap]
        ELSE [status |-> "ok", err |-> NoErr, nil |-> FALSE,
              m |-> [k \in {T.fields[i].name : i \in Annotated(T)} |->
                       Cardinality({j \in Annotated(T) :
                           j < (CHOOSE i \in Annotated(T) : T.fields[i].name = k)})]]

\* getStructTags as it would be if a column absent from the header were
\* skipped instead of failing the call
getStructTagsSkipMissing(T, colHeader) ==
    LET present == {colHeader[i] : i \in 1..Len(colHeader)}
        found   == {i \in Annotated(T) : T.fields[i].col \in present}
    IN  IF T.kind # "Struct"
        THEN [status |-> "err", err |-> Err("NotStruct", ""), nil |-> TRUE, m |-> NilMap]
        ELSE [status |-> "ok", err |-> NoErr, nil |-> FALSE,
              m |-> [k \in {T.fields[i].name : i \in found} |->
                       ColNum(colHeader)[FieldByName(T, k).col]]]

getStructTags(T, colHeader) ==
    IF T.kind # "Struct" /\ T.kind # "Interface"
    THEN [status |-> "err", err |-> Err("NotStruct", ""), nil |-> TRUE, m |-> NilMap]
    ELSE IF T.kind = "Interface"
    THEN [status |-> "panic", err |-> Err("NumFieldOfNonStruct", ""),
          nil |-> TRUE, m |-> NilMap]
    ELSE
      LET colNum  == ColNum(colHeader)
          missing == {i \in Annotated(T) : T.fields[i].col \notin DOMAIN colNum}
      IN  IF missing # {}
          THEN LET i == CHOOSE i \in missing : \A j \in missing : i <= j
               IN  [status |-> "err",
                    err |-> Err("ColumnNotFound", T.fields[i].name),
                    nil |-> TRUE, m |-> NilMap]
          ELSE [status |-> "ok", err |-> NoErr, nil |-> FALSE,
                m |-> [k \in {T.fields[i].name : i \in Annotated(T)} |->
                         colNum[FieldByName(T, k).col]]]

\* readColumnDefCreateStruct up to the closure it returns
readColumnDefCreateStruct(T, colHeader) ==
    IF T.kind # "Struct"
    THEN [status |-> "err", err |-> Err("NotStruct", ""), nil |-> TRUE, m |-> NilMap]
    ELSE getStructTags(T, colHeader)

-----------------------------------------------------------------------------
(* The closure readColumnDefCreateStruct returns: decode one row           *)

Fail(status, kind, field) ==
    [status |-> status, err |-> Err(kind, field), inst |-> <<>>]

\* the bitSize the closure hands to strconv.ParseInt, whatever the field's kind
bitSize == 32

\* one iteration of `for k, v := range colDef`: the field's outcome, with
\* the record as updated when it succeeds
DecodeField(T, k, v, row, rec) ==
    LET field == FieldByName(T, k)
        inRange == v < Len(row)
        cell == row[v + 1]
    IN  CASE field.kind = "Bool" ->
               IF ~inRange THEN Fail("panic", "IndexOutOfRange", k)
               ELSE IF ~ParseBool(cell).ok THEN Fail("err", "InvalidBool", k)
               ELSE IF ~field.exported THEN Fail("panic", "UnexportedField", k)
               ELSE [status |-> "ok", err |-> NoErr,
                     inst |-> <<[rec EXCEPT ![k] = ParseBool(cell).val]>>]
          [] field.kind \in IntKinds ->
               IF ~inRange THEN Fail("panic", "IndexOutOfRange", k)
               ELSE LET out == ParseInt(cell, bitSize)
                    IN  IF ~out.ok THEN Fail("err", "InvalidInt", k)
                        ELSE IF ~field.exported THEN Fail("panic", "UnexportedField", k)
                        ELSE [status |-> "ok", err |-> NoErr,
                              inst |-> <<[rec EXCEPT ![k] =
                                            Truncate(out.val, Width(field.kind))]>>]
          [] field.kind \in FloatKinds ->
               \* the code words a float that does not parse as a bool that
               \* does not
               IF ~inRange THEN Fail("panic", "IndexOutOfRange", k)
               ELSE LET out == ParseFloat(cell, Width(field.kind))
                    IN  IF ~out.ok THEN Fail("err", "InvalidBool", k)
                        ELSE IF ~field.exported THEN Fail("panic", "UnexportedField", k)
                        ELSE [status |-> "ok", err |-> NoErr,
                              inst |-> <<[rec EXCEPT ![k] = out.val]>>]
          [] field.kind = "String" ->
               IF ~inRange THEN Fail("panic", "IndexOutOfRange", k)
               ELSE IF ~field.exported THEN Fail("panic", "UnexportedField", k)
               ELSE [status |-> "ok", err |-> NoErr,
                     inst |-> <<[rec EXCEPT ![k] = cell]>>]
          [] OTHER -> Fail("err", "UnsupportedFieldKind", k)

\* the loop over colDef in the order `order` (a sequence of its keys)
RECURSIVE DecodeLoop(_, _, _, _, _, _)
DecodeLoop(T, colDef, row, order, i, rec) ==
    IF i > Len(order)
    THEN [status |-> "ok", err |-> NoErr, inst |-> <<rec>>]
    ELSE LET o == DecodeField(T, order[i], colDef[order[i]], row, rec)
         IN  IF o.status # "ok"
             THEN o
             ELSE DecodeLoop(T, colDef, row, order, i + 1, o.inst[1])

\* the orders in which Go may range over a map with these keys
Orders(keys) ==
    {o \in [1..Cardinality(keys) -> keys] :
        \A i, j \in 1..Cardinality(keys) : i # j => o[i] # o[j]}

convToInterface(T, colDef, row, order) ==
    DecodeLoop(T, colDef, row, order, 1, ZeroRec(T))

\* every outcome the closure can have on a row
RowOutcomes(T, colDef, row) ==
    {convToInterface(T, colDef, row, o) : o \in Orders(DOMAIN colDef)}

-----------------------------------------------------------------------------
(* The file behind a filename: its bytes, and encoding/csv as the source   *)
(* sets it up: csv.NewWriter (Comma ',', UseCRLF false) and csv.NewReader  *)
(* (Comma ',', no Comment, FieldsPerRecord 0, LazyQuotes and               *)
(* TrimLeadingSpace false).                                                *)

NoFile == [exists |-> FALSE, bytes |-> <<>>]

Quote == "\""

\* the texts one after another
RECURSIVE Concat(_, _, _)
Concat(texts, lo, hi) ==
    IF lo > hi THEN <<>>
    ELSE IF lo = hi THEN texts[lo]
    ELSE Concat(texts, lo, (lo + hi) \div 2)
            \o Concat(texts, (lo + hi) \div 2 + 1, hi)

\* unicode.IsSpace on the characters a TLA+ string can hold: tab, newline,
\* vertical tab, form feed, carriage return and space, then U+0085, U+00A0
\* and U+1680 (the other spaces of Unicode, U+2000 to U+200A, U+2028,
\* U+2029, U+202F, U+205F and U+3000, cannot be written in a string here,
\* so no text of the model holds one)
SpaceChars ==
    { " ", "\t", "\n", "", "\f", "\r", "", " ", " " }

IsSpace(c) == c \in SpaceChars

\* csv.Writer.fieldNeedsQuotes
fieldNeedsQuotes(field) ==
    IF field = <<>> THEN FALSE
    ELSE IF field = <<"\\", ".">> THEN TRUE
    ELSE \/ \E i \in 1..Len(field) : field[i] \in {",", Quote, "\r", "\n"}
         \/ IsSpace(field[1])

\* the bytes of one field: as it is, or between quotes with every quote
\* doubled (UseCRLF being false, a CR and a LF are written as they are)
writeField(field) ==
    IF ~fieldNeedsQuotes(field)
    THEN field
    ELSE <<Quote>>
           \o Concat([i \in 1..Len(field) |->
                        IF field[i] = Quote THEN <<Quote, Quote>> ELSE <<field[i]>>],
                     1, Len(field))
           \o <<Quote>>

\* csv.Writer.Write: the fields with a comma between them, then a newline
Write(record) ==
    Concat([n \in 1..Len(record) |->
              (IF n > 1 THEN <<",">> ELSE <<>>) \o writeField(record[n])],
           1, Len(record))
      \o <<"\n">>

\* the bytes csv.Writer.WriteAll hands to the file for these records
Bytes(records) ==
    Concat([r \in 1..Len(records) |-> Write(records[r])], 1, Len(records))

FileOf(rows) == [exists |-> TRUE, bytes |-> Bytes(rows)]

\* the device behind the file: it takes any number of bytes, or a write
\* fails on it once n bytes are in the file, or no file can be created on it
Plenty == [kind |-> "plenty", n |-> 0]

Limit(n) == [kind |-> "limit", n |-> n]

Locked == [kind |-> "locked", n |-> 0]

\* csv.Writer.WriteAll with its Flush into the file os.Create has just
\* emptied: all the bytes, or an error and the bytes that went in before it
WriteAll(records, d) ==
    LET bytes == Bytes(records)
    IN  IF d.kind = "limit" /\ Len(bytes) > d.n
        THEN [status |-> "err", bytes |-> SubSeq(bytes, 1, d.n)]
        ELSE [status |-> "ok", bytes |-> bytes]

NotCRBeforeLF(pair) == ~(pair[1] = "\r" /\ pair[2] = "\n")

\* csv.Reader.readLine, over the whole input: a last line that no newline
\* ends loses a CR at its end, and every CR LF becomes LF
readLine(bytes) ==
    LET n     == Len(bytes)
        cut   == IF n > 0 /\ bytes[n] = "\r" THEN SubSeq(bytes, 1, n - 1) ELSE bytes
        pairs == [i \in 1..Len(cut) |->
                    <<cut[i], IF i < Len(cut) THEN cut[i + 1] ELSE "">>]
        kept  == SelectSeq(pairs, NotCRBeforeLF)
    IN  [i \in 1..Len(kept) |-> kept[i][1]]

\* the first place from p on that holds one of `stops`, or the place after
\* the last
RECURSIVE Scan(_, _, _)
Scan(line, p, stops) ==
    IF p > Len(line) \/ line[p] \in stops THEN p
    ELSE Scan(line, p + 1, stops)

NoField == [ok |-> FALSE, field |-> <<>>, next |-> 0, more |-> FALSE]

\* csv.Reader.readRecord, a field that does not start with a quote: it runs
\* to the next comma or to the end of the line, and may hold no quote
\* (ErrBareQuote)
bareField(line, p) ==
    LET e     == Scan(line, p, {",", "\n"})
        field == SubSeq(line, p, e - 1)
    IN  IF \E i \in 1..Len(field) : field[i] = Quote
        THEN NoField
        ELSE [ok |-> TRUE, field |-> field, next |-> e + 1,
              more |-> e <= Len(line) /\ line[e] = ","]

\* csv.Reader.readRecord, a field that starts with a quote, from place p
\* after that quote or after a doubled quote inside it: it runs, over the
\* lines it takes, to a quote that a comma, the end of the line or the end
\* of the input follows (ErrQuote otherwise, and when the input ends first)
RECURSIVE quotedField(_, _, _)
quotedField(line, p, got) ==
    LET i    == Scan(line, p, {Quote})
        text == got \o SubSeq(line, p, i - 1)
    IN  IF i > Len(line) THEN NoField
        ELSE IF i = Len(line)
        THEN [ok |-> TRUE, field |-> text, next |-> i + 1, more |-> FALSE]
        ELSE IF line[i + 1] = Quote
        THEN quotedField(line, i + 2, Append(text, Quote))
        ELSE IF line[i + 1] = ","
        THEN [ok |-> TRUE, field |-> text, next |-> i + 2, more |-> TRUE]
        ELSE IF line[i + 1] = "\n"
        THEN [ok |-> TRUE, field |-> text, next |-> i + 2, more |-> FALSE]
        ELSE NoField

\* csv.Reader.readRecord: the fields of the record that starts at place p
RECURSIVE readRecord(_, _, _)
readRecord(line, p, fields) ==
    LET f == IF p <= Len(line) /\ line[p] = Quote
             THEN quotedField(line, p + 1, <<>>)
             ELSE bareField(line, p)
    IN  IF ~f.ok THEN [ok |-> FALSE, record |-> <<>>, next |-> 0]
        ELSE IF f.more THEN readRecord(line, f.next, Append(fields, f.field))
        ELSE [ok |-> TRUE, record |-> Append(fields, f.field), next |-> f.next]

\* the loop of csv.Reader.ReadAll from place p: an empty line is skipped;
\* with perRecord 0 the first record sets the number of fields every later
\* one must have, with perRecord above 0 that number is perRecord, below 0
\* any number will do (ErrFieldCount)
RECURSIVE readFrom(_, _, _, _)
readFrom(line, p, perRecord, records) ==
    IF p > Len(line) THEN [status |-> "ok", records |-> records]
    ELSE IF line[p] = "\n" THEN readFrom(line, p + 1, perRecord, records)
    ELSE LET r == readRecord(line, p, <<>>)
         IN  IF ~r.ok THEN [status |-> "err", records |-> <<>>]
             ELSE IF perRecord > 0 /\ Len(r.record) # perRecord
             THEN [status |-> "err", records |-> <<>>]
             ELSE readFrom(line, r.next,
                           IF perRecord = 0 THEN Len(r.record) ELSE perRecord,
                           Append(records, r.record))

\* csv.Reader.ReadAll
ReadAll(bytes, perRecord) == readFrom(readLine(bytes), 1, perRecord, <<>>)

\* Reader.FieldsPerRecord as csv.NewReader leaves it
FieldsPerRecord == 0

readFileToArr(f) ==
    IF ~f.exists
    THEN [status |-> "err", records |-> <<>>]
    ELSE ReadAll(f.bytes, FieldsPerRecord)

-----------------------------------------------------------------------------
(* ReadToStruct                                                            *)

Result(op, T, status, err, recs, sink) ==
    [op |-> op, T |-> T, status |-> status, err |-> err, recs |-> recs,
     sink |-> sink]

\* the loop over records[1:], with every order the closure may take
RECURSIVE DecodeRows(_, _, _, _, _)
DecodeRows(T, colDef, records, i, str) ==
    IF i > Len(records)
    THEN {[status |-> "ok", err |-> NoErr, recs |-> str]}
    ELSE UNION { IF o.status # "ok"
                 THEN {[status |-> o.status, err |-> o.err, recs |-> <<>>]}
                 ELSE DecodeRows(T, colDef, records, i + 1, Append(str, o.inst[1]))
                 : o \in RowOutcomes(T, colDef, records[i]) }

\* every outcome of ReadToStruct[T](filename) when the file is f
ReadToStruct(T, f) ==
    LET read == readFileToArr(f)
    IN  IF read.status # "ok"
        THEN {[status |-> "err", err |-> Err("SourceReadError", ""), recs |-> <<>>]}
        ELSE IF Len(read.records) = 0
        THEN {[status |-> "panic", err |-> Err("IndexOutOfRange", ""), recs |-> <<>>]}
        ELSE LET c == readColumnDefCreateStruct(T, read.records[1])
             IN  IF c.status # "ok"
                 THEN {[status |-> c.status, err |-> c.err, recs |-> <<>>]}
                 ELSE DecodeRows(T, c.m, read.records, 2, <<>>)

-----------------------------------------------------------------------------
(* WriteFromStruct                                                         *)

\* getStructTagForHeader: field index (zero-based) -> column name
getStructTagForHeader(T) ==
    IF T.kind # "Struct"
    THEN [status |-> "err", err |-> Err("NotStruct", ""), header |-> NilMap]
    ELSE [status |-> "ok", err |-> NoErr,
          header |-> [i \in {j - 1 : j \in Annotated(T)} |-> T.fields[i + 1].col]]

SupportedKinds == {"Bool", "String"} \cup IntKinds \cup FloatKinds

\* the cell a field's value is written as
EncodeField(kind, v) ==
    CASE kind = "Bool" -> FormatBool(v)
      [] kind \in IntKinds -> FormatInt(v)
      [] kind \in FloatKinds -> FormatFloat(v)
      [] kind = "String" -> v

\* the rows WriteFromStruct builds, or the error or fault that stops it
\* before the file is opened
EncodeRecords(T, in) ==
    LET h == getStructTagForHeader(T)
    IN  IF h.status # "ok"
        THEN [status |-> "err", err |-> h.err, out |-> <<>>]
        ELSE
          LET header == h.header
              n      == Cardinality(DOMAIN header)
          IN  \* headRow[i] = v for every key i of a map with n keys
              IF \E i \in DOMAIN header : i >= n
              THEN [status |-> "panic", err |-> Err("IndexOutOfRange", ""), out |-> <<>>]
              ELSE IF in # <<>> /\ \E i \in DOMAIN header :
                                      T.fields[i + 1].kind \notin SupportedKinds
              THEN [status |-> "err", err |-> Err("UnsupportedFieldKind", ""),
                    out |-> <<>>]
              ELSE [status |-> "ok", err |-> NoErr,
                    out |-> << [i \in 1..n |-> header[i - 1]] >>
                            \o [r \in 1..Len(in) |->
                                  [i \in 1..n |->
                                     EncodeField(T.fields[i].kind,
                                                 in[r][T.fields[i].name])]]]

\* WriteFromStruct as it would be if the file were created before the
\* records are encoded
WriteFromStructCreateFirst(T, in, f, d) ==
    LET e == EncodeRecords(T, in)
        w == WriteAll(e.out, d)
    IN  IF d.kind = "locked"
        THEN [status |-> "err", err |-> Err("SinkWriteError", ""),
              sink |-> "untouched", file |-> f]
        ELSE IF e.status # "ok"
        THEN [status |-> e.status, err |-> e.err, sink |-> "created",
              file |-> [exists |-> TRUE, bytes |-> <<>>]]
        ELSE IF w.status # "ok"
        THEN [status |-> "err", err |-> Err("SinkWriteError", ""),
              sink |-> "created", file |-> [exists |-> TRUE, bytes |-> w.bytes]]
        ELSE [status |-> "ok", err |-> NoErr, sink |-> "written",
              file |-> [exists |-> TRUE, bytes |-> w.bytes]]

\* WriteFromStruct[T](filename, in) when the filename holds f and lies on
\* device d: the result and the file afterwards
WriteFromStruct(T, in, f, d) ==
    LET e == EncodeRecords(T, in)
        w == WriteAll(e.out, d)
    IN  IF e.status # "ok"
        THEN [status |-> e.status, err |-> e.err, sink |-> "untouched", file |-> f]
        ELSE IF d.kind = "locked"
        THEN [status |-> "err", err |-> Err("SinkWriteError", ""),
              sink |-> "untouched", file |-> f]
        ELSE IF w.status # "ok"
        THEN [status |-> "err", err |-> Err("SinkWriteError", ""),
              sink |-> "created", file |-> [exists |-> TRUE, bytes |-> w.bytes]]
        ELSE [status |-> "ok", err |-> NoErr, sink |-> "written",
              file |-> [exists |-> TRUE, bytes |-> w.bytes]]

-----------------------------------------------------------------------------
(* Inputs                                                                  *)

\* records in one call of WriteFromStruct
MaxRecs == 2

\* cells in a header row or a data row handed to the closure
MaxCols == 3

\* bytes in the file when a write fails on a device that has a limit
MaxRoom == 12

SeqsUpTo(S, n) == UNION {[1..k -> S] : k \in 0..n}

Pos(d) == Big(FALSE, d)

Neg(d) == Big(TRUE, d)

\* the records a caller passes, per type (every field set, annotated or not)
RecPool(t) ==
    CASE t = "Pair" ->
           { [A |-> <<"3", "0", "0">>, B |-> TRUE],
             [A |-> <<>>, B |-> FALSE] }
      [] t = "Ints" ->
           { [A |-> Pos(<<1, 2, 7>>), B |-> Pos(<<2, 1, 4, 7, 4, 8, 3, 6, 4, 8>>)],
             [A |-> Neg(<<1, 2, 8>>), B |-> Neg(<<1>>)] }
      [] t = "Nums" ->
           { [A |-> Neg(<<3, 2, 7, 6, 8>>),
              B |-> Pos(<<9, 2, 2, 3, 3, 7, 2, 0, 3, 6, 8, 5, 4, 7, 7, 5, 8, 0, 7>>)],
             [A |-> Pos(<<3, 0, 0>>),
              B |-> Neg(<<9, 2, 2, 3, 3, 7, 2, 0, 3, 6, 8, 5, 4, 7, 7, 5, 8, 0, 8>>)] }
      [] t = "Reals" ->
           { [A |-> Flt(FALSE, <<2>>, <<5>>),
              B |-> Flt(FALSE, <<1, 6, 7, 7, 7, 2, 1, 6>>, <<>>)],
             [A |-> Flt(TRUE, <<0>>, <<5>>), B |-> Flt(FALSE, <<0>>, <<7, 5>>)] }
      [] t = "Mid" ->
           { [A |-> Pos(<<2, 1, 4, 7, 4, 8, 3, 6, 4, 7>>), Skip |-> <<"s">>,
              B |-> <<"t", "r", "u", "e">>],
             [A |-> Neg(<<2, 1, 4, 7, 4, 8, 3, 6, 4, 8>>), Skip |-> <<>>,
              B |-> <<"0">>] }
      [] t = "Head" ->
           { [Skip |-> TRUE, A |-> <<"1">>], [Skip |-> FALSE, A |-> <<"0">>] }
      [] t = "Tail" ->
           { [A |-> <<>>, Skip |-> "nil"],
             [A |-> <<"t", "r", "u", "e">>, Skip |-> "nil"],
             [A |-> <<"x", "\r", "\n", "y">>, Skip |-> "nil"] }
      [] t = "Bad" ->
           { [A |-> <<"1">>, L |-> "nil"] }
      [] t = "Hid" ->
           { [A |-> <<"1">>, b |-> TRUE], [A |-> <<"0">>, b |-> FALSE] }
      [] t = "Mix" ->
           { [A |-> Pos(<<7>>), b |-> TRUE] }
      [] t = "NotStruct" ->
           { Pos(<<7>>) }

RecordSets(t) == SeqsUpTo(RecPool(t), MaxRecs)

\* the devices the file may lie on
Devices == {Plenty, Locked} \cup {Limit(n) : n \in 0..MaxRoom}

\* grids some other program wrote with csv.Writer: a data row with a cell
\* beyond the header's, and one that ends before the header does
Foreign ==
    { << << <<"a">> >>, << <<"t", "r", "u", "e">>, <<"0">> >> >>,
      << << <<"a">>, <<"x">> >>, << <<"t", "r", "u", "e">> >> >> }

\* what the filename may hold before the first call
Found == {NoFile} \cup {FileOf(g) : g \in Foreign}

\* column names a header row is made of: those the types bind, and another
ColPool == { <<"a">>, <<"b">>, <<"x">> }

\* the cells a row handed to the closure is made of, per type: texts its
\* fields' kinds take, refuse, or take at one width and refuse at another
CellPool(t) ==
    CASE t = "Ints" ->
           { <<"t", "r", "u", "e">>, <<"0">>, <<"3", "0", "0">>,
             <<"2", "1", "4", "7", "4", "8", "3", "6", "4", "8">> }
      [] t \in {"Nums", "Mid"} ->
           { <<"t", "r", "u", "e">>, <<"3", "0", "0">>,
             <<"2", "1", "4", "7", "4", "8", "3", "6", "4", "8">> }
      [] t = "Reals" ->
           { <<"t", "r", "u", "e">>, <<"2", ".", "5">>,
             <<"0", "x", "1", "p", "1", "2", "8">> }
      [] OTHER ->
           { <<"t", "r", "u", "e">>, <<"0">>, <<"3", "0", "0">> }

\* the header rows csv.Reader can return: one cell at least
Headers == SeqsUpTo(ColPool, MaxCols) \ {<<>>}

\* the data rows csv.Reader lets follow a header of n cells: n cells each
Rows(t, n) == [1..n -> CellPool(t)]

-----------------------------------------------------------------------------
(* State                                                                   *)
(*   file     the file behind the one filename the calls use               *)
(*   written  the last call of WriteFromStruct that wrote the file whole   *)
(*   ret      what the last call returned                                  *)
(*   conv     a closure made by readColumnDefCreateStruct, with the header *)
(*            and the row it is tried on                                   *)
(*   dev      the device the file lies on                                  *)

NoWrite == [valid |-> FALSE, T |-> "", in |-> <<>>]

NoRet == Result("none", "", "ok", NoErr, <<>>, "untouched")

NoConv ==
    [T |-> "", colHeader |-> <<>>, row |-> <<>>, status |-> "none",
     err |-> NoErr, nil |-> TRUE, m |-> NilMap]

Init ==
    /\ file \in Found
    /\ written = NoWrite
    /\ ret = NoRet
    /\ conv = NoConv
    /\ dev \in Devices

CallWriteFromStruct(t, in) ==
    \E w \in {WriteFromStruct(Types[t], in, file, dev)} :
        /\ file' = w.file
        /\ written' = IF w.status = "ok"
                      THEN [valid |-> TRUE, T |-> t, in |-> in]
                      ELSE IF w.sink = "untouched" THEN written ELSE NoWrite
        /\ ret' = Result("write", t, w.status, w.err, <<>>, w.sink)
        /\ UNCHANGED <<conv, dev>>

CallReadToStruct(t) ==
    \E r \in ReadToStruct(Types[t], file) :
        /\ ret' = Result("read", t, r.status, r.err, r.recs, "untouched")
        /\ UNCHANGED <<file, written, conv, dev>>

Next ==
    \/ \E t \in TypeNames : \E in \in RecordSets(t) :
            CallWriteFromStruct(t, in)
    \/ \E t \in TypeNames : CallReadToStruct(t)

Spec == Init /\ [][Next]_vars

-----------------------------------------------------------------------------
(* The closure on its own: a header and a row of as many cells are drawn   *)
(* (ReadToStruct, the closure's one caller, hands it the rows csv.Reader   *)
(* returned, which have the header's number of cells), the closure is made *)
(* from the header and then called on the row.                             *)

InitDecode ==
    /\ file = NoFile
    /\ written = NoWrite
    /\ ret = NoRet
    /\ dev = Plenty
    /\ \E t \in TypeNames, h \in Headers : \E r \in Rows(t, Len(h)) :
          conv = [T |-> t, colHeader |-> h, row |-> r, status |-> "new",
                  err |-> NoErr, nil |-> TRUE, m |-> NilMap]

CallReadColumnDefCreateStruct ==
    /\ conv.status = "new"
    /\ LET c == readColumnDefCreateStruct(Types[conv.T], conv.colHeader)
       IN  /\ conv' = [conv EXCEPT !.status = c.status, !.err = c.err,
                                   !.nil = c.nil, !.m = c.m]
           /\ ret' = Result("bind", conv.T, c.status, c.err, <<>>, "untouched")
    /\ UNCHANGED <<file, written, dev>>

CallConvToInterface ==
    /\ conv.status = "ok"
    /\ ret.op = "bind"
    /\ \E o \in RowOutcomes(Types[conv.T], conv.m, conv.row) :
          ret' = Result("decode", conv.T, o.status, o.err, o.inst, "untouched")
    /\ UNCHANGED <<file, written, conv, dev>>

NextDecode == CallReadColumnDefCreateStruct \/ CallConvToInterface

SpecDecode == InitDecode /\ [][NextDecode]_vars

-----------------------------------------------------------------------------
(* What the claims speak of                                                *)

\* the annotated fields of T in declaration order
RECURSIVE AnnotatedFrom(_, _)
AnnotatedFrom(T, i) ==
    IF i > Len(T.fields)
    THEN <<>>
    ELSE (IF T.fields[i].col # NoTag THEN <<T.fields[i]>> ELSE <<>>)
            \o AnnotatedFrom(T, i + 1)

AnnotatedFields(T) == AnnotatedFrom(T, 1)

AnnotatedNames(T) == {T.fields[i].name : i \in Annotated(T)}

AnnotatedCols(T) == {T.fields[i].col : i \in Annotated(T)}

IsRecordType(T) == T.kind = "Struct"

AllSupported(T) == \A i \in Annotated(T) : T.fields[i].kind \in SupportedKinds

Occurrences(h, c) == Cardinality({i \in 1..Len(h) : h[i] = c})

Permute(s, p) == [i \in 1..Len(s) |-> s[p[i]]]

RemoveAt(s, i) == SubSeq(s, 1, i - 1) \o SubSeq(s, i + 1, Len(s))

\* the header and the rows the claims expect of a write
ExpectedGrid(T, in) ==
    LET fs == AnnotatedFields(T)
    IN  << [i \in 1..Len(fs) |-> fs[i].col] >>
          \o [r \in 1..Len(in) |->
                [i \in 1..Len(fs) |-> EncodeField(fs[i].kind, in[r][fs[i].name])]]

\* the text is a value of the kind as the type declares it
CellParses(kind, cell) ==
    CASE kind = "Bool" -> ParseBool(cell).ok
      [] kind \in IntKinds -> ParseInt(cell, Width(kind)).ok
      [] kind \in FloatKinds -> ParseFloat(cell, Width(kind)).ok
      [] OTHER -> TRUE

\* the last call's result as an outcome of the closure
RetOutcome == [status |-> ret.status, err |-> ret.err, inst |-> ret.recs]

\* the closure's outcomes on a header and a row, or the binder's failure
OutcomesOn(T, h, row) ==
    LET c == readColumnDefCreateStruct(T, h)
    IN  IF c.status # "ok"
        THEN {Fail(c.status, c.err.kind, c.err.field)}
        ELSE RowOutcomes(T, c.m, row)

-----------------------------------------------------------------------------
(* C1: a record set written by WriteFromStruct and read back by            *)
(* ReadToStruct with the same type comes back field for field equal;       *)
(* stated for the types whose annotated fields are all integers, whose     *)
(* every value the claim says survives.                                    *)
C1_RoundTrip ==
    ( /\ ret.op = "read"
      /\ written.valid
      /\ ret.T = written.T
      /\ \A i \in Annotated(Types[ret.T]) :
            /\ Types[ret.T].fields[i].kind \in IntKinds
            /\ Types[ret.T].fields[i].exported )
    => /\ ret.status = "ok"
       /\ Len(ret.recs) = Len(written.in)
       /\ \A k \in 1..Len(written.in) :
            \A f \in AnnotatedNames(Types[ret.T]) :
                ret.recs[k][f] = written.in[k][f]

(* C2: for a type mixing annotated and unannotated fields, wherever the    *)
(* unannotated ones sit, WriteFromStruct writes a header of the annotated  *)
(* column names in declaration order and rows with one cell per annotated  *)
(* field, cell i encoding the field of header cell i.                      *)
C2_HeaderOfAnnotated ==
    ( /\ ret.op = "write"
      /\ IsRecordType(Types[ret.T])
      /\ Annotated(Types[ret.T]) # {}
      /\ Annotated(Types[ret.T]) # 1..Len(Types[ret.T].fields)
      /\ AllSupported(Types[ret.T])
      /\ ret.err.kind # "SinkWriteError" )
    => /\ ret.status = "ok"
       /\ written.valid
       /\ written.T = ret.T
       /\ file = FileOf(ExpectedGrid(Types[ret.T], written.in))

(* C3: the closure rejects a cell exactly when its text is not a value of  *)
(* the field's declared kind -- for an integer field of width w, when it   *)
(* is not a decimal integer representable in w bits -- and returns no      *)
(* instance when it fails.                                                 *)
C3_RejectsExactlyUnparsable ==
    ( /\ ret.op = "decode"
      /\ \A f \in DOMAIN conv.m : conv.m[f] < Len(conv.row) )
    => /\ (ret.status = "err" /\ ret.err.kind \in {"InvalidInt", "InvalidBool"})
            => ~CellParses(FieldByName(Types[conv.T], ret.err.field).kind,
                           conv.row[conv.m[ret.err.field] + 1])
       /\ (\E f \in DOMAIN conv.m :
              ~CellParses(FieldByName(Types[conv.T], f).kind, conv.row[conv.m[f] + 1]))
            => ret.status # "ok"
       /\ ret.status # "ok" => ret.recs = <<>>

(* C4: a header holding every annotated column name, in any order and with *)
(* other, unrelated columns, binds; and the decoded record is the same     *)
(* when the columns of header and row are permuted alike, or a column no   *)
(* field refers to is removed from both.                                   *)
C4_ColumnOrderInsensitive ==
    LET T == Types[conv.T]
        h == conv.colHeader
        here == RowOutcomes(T, conv.m, conv.row)
    IN  ( /\ conv.status # "new"
          /\ IsRecordType(T)
          /\ \A c \in AnnotatedCols(T) : Occurrences(h, c) = 1 )
        => /\ conv.status = "ok"
           /\ (ret.op = "decode" /\ Len(conv.row) = Len(h))
                => /\ RetOutcome \in here
                   /\ \A p \in Orders(1..Len(h)) :
                        OutcomesOn(T, Permute(h, p), Permute(conv.row, p)) = here
                   /\ \A i \in 1..Len(h) :
                        h[i] \notin AnnotatedCols(T)
                          => OutcomesOn(T, RemoveAt(h, i), RemoveAt(conv.row, i)) = here

\* a record decoded from a header in another order than the declaration's,
\* with a column no field refers to in between
C4_Witness ==
    /\ ret.op = "decode"
    /\ ret.status = "ok"
    /\ conv.T = "Pair"
    /\ conv.colHeader = << <<"b">>, <<"x">>, <<"a">> >>
    /\ conv.row = << <<"t", "r", "u", "e">>, <<"0">>, <<"3", "0", "0">> >>
    /\ ret.recs = << [A |-> <<"3", "0", "0">>, B |-> TRUE] >>

(* C5: getStructTags fails with ColumnNotFound exactly when an annotated   *)
(* column name is absent from the header; a failure returns no binding,    *)
(* a success binds every annotated field, and no other, to a place where   *)
(* the header holds its column name.                                       *)
C5_BindsAllOrNothing ==
    LET T == Types[conv.T]
        h == conv.colHeader
        present == {h[i] : i \in 1..Len(h)}
    IN  (conv.status # "new" /\ IsRecordType(T))
        => /\ (conv.status = "err" /\ conv.err.kind = "ColumnNotFound")
                <=> (\E c \in AnnotatedCols(T) : c \notin present)
           /\ conv.status \in {"ok", "err"}
           /\ conv.status = "err" => (conv.nil /\ DOMAIN conv.m = {})
           /\ conv.status = "ok"
                => /\ ~conv.nil
                   /\ DOMAIN conv.m = AnnotatedNames(T)
                   /\ \A f \in DOMAIN conv.m :
                        /\ conv.m[f] \in 0..(Len(h) - 1)
                        /\ h[conv.m[f] + 1] = FieldByName(T, f).col

\* a header with one of two annotated columns: the binder failed and left
\* no binding for the column that is there
C5_Witness ==
    /\ conv.status = "err"
    /\ conv.err.kind = "ColumnNotFound"
    /\ conv.T = "Pair"
    /\ conv.colHeader = << <<"x">>, <<"a">> >>
    /\ conv.nil

(* C6: ReadToStruct of a file whose header the type binds to: when a data  *)
(* row ends before a column the binding refers to, the caller gets an      *)
(* error value; when every data row holds every column the binding refers  *)
(* to, the rows are decoded whatever cells they hold besides: the cells no *)
(* field refers to are ignored and a row longer than needed decodes.       *)
C6_ShortRowErrLongRowDecodes ==
    LET T    == Types[ret.T]
        grid == ReadAll(file.bytes, -1)
        c    == readColumnDefCreateStruct(T, grid.records[1])
        short(k) == \E f \in DOMAIN c.m : c.m[f] >= Len(grid.records[k])
    IN  ( /\ ret.op = "read"
          /\ file.exists
          /\ grid.status = "ok"
          /\ Len(grid.records) >= 1
          /\ c.status = "ok" )
        => IF \E k \in 2..Len(grid.records) : short(k)
           THEN ret.status = "err"
           ELSE [status |-> ret.status, err |-> ret.err, recs |-> ret.recs]
                  \in DecodeRows(T, c.m, grid.records, 2, <<>>)

(* C7: ReadToStruct over a grid with a header row and N data rows returns  *)
(* either N records, record k decoded from data row k, or an error and no  *)
(* record: the error of the first data row that fails, with every row      *)
(* before it decodable.                                                    *)
C7_AllRowsOrFirstError ==
    LET T    == Types[ret.T]
        read == readFileToArr(file)
        c    == readColumnDefCreateStruct(T, read.records[1])
        fails(k) == {o \in RowOutcomes(T, c.m, read.records[k]) : o.status # "ok"}
        passes(k) == {o \in RowOutcomes(T, c.m, read.records[k]) : o.status = "ok"}
    IN  ( /\ ret.op = "read"
          /\ read.status = "ok"
          /\ Len(read.records) >= 1 )
        => \/ /\ ret.status = "ok"
              /\ c.status = "ok"
              /\ Len(ret.recs) = Len(read.records) - 1
              /\ \A k \in 1..Len(ret.recs) :
                    \E o \in passes(k + 1) : o.inst = <<ret.recs[k]>>
           \/ /\ ret.status = "err"
              /\ ret.recs = <<>>
              /\ \/ c.status = "err" /\ ret.err = c.err
                 \/ /\ c.status = "ok"
                    /\ \E k \in 2..Len(read.records) :
                          /\ \E o \in fails(k) : o.err = ret.err
                          /\ \A j \in 2..(k - 1) : passes(j) # {}

(* C8: a write that fails because the type is no record type or a field's  *)
(* kind is unsupported leaves the file as it was, neither created nor      *)
(* truncated nor written; the sink is touched only by a call whose records *)
(* were all encoded.                                                       *)
C8_SinkUntouchedOnEncodeError ==
    [][ (ret'.op = "write")
          => /\ ret'.err.kind \in {"NotStruct", "UnsupportedFieldKind"}
                  => (file' = file /\ ret'.sink = "untouched")
             /\ (file' # file \/ ret'.sink # "untouched")
                  => ret'.err.kind \in {"", "SinkWriteError"} ]_vars

\* a file written earlier is still whole after a write of a type with an
\* unsupported field failed
C8_Witness ==
    /\ ret.op = "write"
    /\ ret.status = "err"
    /\ ret.err.kind = "UnsupportedFieldKind"
    /\ ret.sink = "untouched"
    /\ written.valid
    /\ Len(readFileToArr(file).records) = 3

(* C9: for every grid the reader returns without error, a grid of zero     *)
(* rows included, ReadToStruct returns records or an error value; stated   *)
(* for the grid of zero rows, which has no header row.                     *)
C9_EmptyGridReturns ==
    ( /\ ret.op = "read"
      /\ readFileToArr(file).status = "ok"
      /\ Len(readFileToArr(file).records) = 0 )
    => ret.status \in {"ok", "err"}

(* C10: for a fixed binding and row, the closure's outcome is of the same  *)
(* class (record, error, fault) in whatever order the binding's entries    *)
(* are visited, and the record is the same.                                *)
C10_OrderIndependentOutcome ==
    (ret.op = "decode")
    => \A o \in RowOutcomes(Types[conv.T], conv.m, conv.row) :
          /\ o.status = ret.status
          /\ o.status = "ok" => o.inst = ret.recs

=============================================================================
